---- MODULE Spec2Model ----
(***************************************************************************)
(* USB descriptor tree of libhal (hal::experimental): interface settings,  *)
(* usb_interface with its alternate settings, pack_u16_le and              *)
(* usb_configuration with its recursive write-out.                         *)
(*                                                                         *)
(* Byte arrays keep the source's 0-based indices: m_packed_data is a       *)
(* function on 0..8.  Objects are records, a span of pairs is a sequence   *)
(* of <<index, setting>> tuples, an interface pointer is a position in     *)
(* the sequence ifaces.                                                    *)
(***************************************************************************)
EXTENDS Integers, Sequences, FiniteSets, TLC

VARIABLES
    p_settings,   \* the caller's array of pair<u8, interface_settings> being filled
    ifaces,       \* the usb_interface objects constructed so far
    config,       \* the usb_configuration object, or NoConfig
    pc,           \* "idle", or "writing" while write_descriptors runs
    w_next,       \* position in m_ifaces of the next interface to write
    dispatched,   \* what p_dispatch received during the running call
    built_from,   \* the total_length() values the configuration's constructor read
    ctrl_endpoint,\* the buffers the usb_control_endpoint has been handed to write
    descriptor,   \* the device_descriptor object and the buffer it packs into
    driver,       \* the driver behind a peripheral interface: the calls it received
    last          \* the last call made: operation, arguments, whether it threw

vars == <<p_settings, ifaces, config, pc, w_next, dispatched, built_from,
          ctrl_endpoint, descriptor, driver, last>>

(* The variables of the descriptor tree *)
usb_vars == <<p_settings, ifaces, config, pc, w_next, dispatched, built_from,
              ctrl_endpoint>>

-----------------------------------------------------------------------------
(* Bounds of the model *)

MaxSettings == 2      \* capacity of the caller's settings array
MaxIdx == 1           \* alternate-setting indices registered are 0..MaxIdx
MaxIfaces == 2        \* interfaces constructed for one configuration

-----------------------------------------------------------------------------
(* enum class usb_class_code : u8 *)

USE_INTERFACE_DESCRIPTOR == 0
AUDIO == 1
CDC_CONTROL == 2
HID == 3
PHYSICAL == 5
IMAGE == 6
PRINTER == 7
MASS_STORAGE == 8
HUB == 9
CDC_DATA == 10
SMART_CARD == 11
CONTENT_SECURITY == 13
VIDEO == 14
PERSONAL_HEALTHCARE == 15
AUDIO_VIDEO == 16
BILLBOARD == 17
USB_C_BRIDGE == 18
BULK_DISPLAY == 19
MCTP == 20
I3C == 60
DIAGNOSTIC == 220
WIRELESS_CONTROLLER == 224
MISC == 239
APPLICATION_SPECIFIC == 254
VENDOR_SPECIFIC == 255

usb_class_code ==
    { USE_INTERFACE_DESCRIPTOR, AUDIO, CDC_CONTROL, HID, PHYSICAL, IMAGE,
      PRINTER, MASS_STORAGE, HUB, CDC_DATA, SMART_CARD, CONTENT_SECURITY,
      VIDEO, PERSONAL_HEALTHCARE, AUDIO_VIDEO, BILLBOARD, USB_C_BRIDGE,
      BULK_DISPLAY, MCTP, I3C, DIAGNOSTIC, WIRELESS_CONTROLLER, MISC,
      APPLICATION_SPECIFIC, VENDOR_SPECIFIC }

(* enum class descriptor_type : byte (the two values the classes use) *)
CONFIGURATION == 2
INTERFACE == 4

(* std::array<byte, 9> m_packed_data: its size() *)
PackedSize == 9

-----------------------------------------------------------------------------
(* Integer widths *)

U8(x) == x % 256
U16(x) == x % 65536

argument_out_of_domain == "argument_out_of_domain"

(* Values a byte that the code never wrote may hold *)
Junk == {0, 165}

-----------------------------------------------------------------------------
(* usb_interface::interface_settings *)

(* The constructor: throws for the three class codes an interface may not
   declare, before m_class is assigned; otherwise the object holds the five
   arguments. *)
interface_settings_hub_allowed(p_num_endpoints, p_class, p_subclass, p_protocol, p_str_name_idx) ==
    IF p_class = USE_INTERFACE_DESCRIPTOR \/ p_class = BILLBOARD
    THEN [threw |-> TRUE, error |-> argument_out_of_domain]
    ELSE [threw |-> FALSE,
          value |-> [m_num_endpoints |-> p_num_endpoints,
                     m_class |-> p_class,
                     m_subclass |-> p_subclass,
                     m_protocol |-> p_protocol,
                     m_str_name_idx |-> p_str_name_idx]]

interface_settings_rejects_application(p_num_endpoints, p_class, p_subclass, p_protocol, p_str_name_idx) ==
    IF p_class = USE_INTERFACE_DESCRIPTOR \/ p_class = HUB \/ p_class = BILLBOARD
       \/ p_class = APPLICATION_SPECIFIC
    THEN [threw |-> TRUE, error |-> argument_out_of_domain]
    ELSE [threw |-> FALSE,
          value |-> [m_num_endpoints |-> p_num_endpoints,
                     m_class |-> p_class,
                     m_subclass |-> p_subclass,
                     m_protocol |-> p_protocol,
                     m_str_name_idx |-> p_str_name_idx]]

interface_settings(p_num_endpoints, p_class, p_subclass, p_protocol, p_str_name_idx) ==
    IF p_class = USE_INTERFACE_DESCRIPTOR \/ p_class = HUB \/ p_class = BILLBOARD
    THEN [threw |-> TRUE, error |-> argument_out_of_domain]
    ELSE [threw |-> FALSE,
          value |-> [m_num_endpoints |-> p_num_endpoints,
                     m_class |-> p_class,
                     m_subclass |-> p_subclass,
                     m_protocol |-> p_protocol,
                     m_str_name_idx |-> p_str_name_idx]]

-----------------------------------------------------------------------------
(* usb_interface *)

(* get_interface_setting: the loop over m_settings returns the first pair
   whose first member equals p_number; falling off the end throws. *)
RECURSIVE find_setting(_, _, _)
find_setting(m_settings, p_number, k) ==
    IF k > Len(m_settings)
    THEN [threw |-> TRUE, error |-> argument_out_of_domain]
    ELSE IF m_settings[k][1] = p_number
         THEN [threw |-> FALSE, value |-> m_settings[k][2]]
         ELSE find_setting(m_settings, p_number, k + 1)

RECURSIVE find_setting_from_end(_, _, _)
find_setting_from_end(m_settings, p_number, k) ==
    IF k < 1
    THEN [threw |-> TRUE, error |-> argument_out_of_domain]
    ELSE IF m_settings[k][1] = p_number
         THEN [threw |-> FALSE, value |-> m_settings[k][2]]
         ELSE find_setting_from_end(m_settings, p_number, k - 1)

get_interface_setting_last_match(self, p_number) ==
    find_setting_from_end(self.m_settings, p_number, Len(self.m_settings))

get_interface_setting(self, p_number) ==
    find_setting(self.m_settings, p_number, 1)

(* set_setting: the lookup comes first and its throw leaves the object as it
   was; then bytes 4..8 and m_selected_setting_number are assigned. *)
set_setting_selects_before_lookup(self, p_number) ==
    LET r == get_interface_setting(self, p_number) IN
    IF r.threw
    THEN [threw |-> TRUE, error |-> r.error,
          self |-> [self EXCEPT !.m_selected_setting_number = p_number]]
    ELSE [threw |-> FALSE,
          self |-> [self EXCEPT
                      !.m_packed_data[4] = r.value.m_num_endpoints,
                      !.m_packed_data[5] = r.value.m_class,
                      !.m_packed_data[6] = r.value.m_subclass,
                      !.m_packed_data[7] = r.value.m_protocol,
                      !.m_packed_data[8] = r.value.m_str_name_idx,
                      !.m_selected_setting_number = p_number]]

set_setting_swapped_bytes(self, p_number) ==
    LET r == get_interface_setting(self, p_number) IN
    IF r.threw
    THEN [threw |-> TRUE, error |-> r.error, self |-> self]
    ELSE [threw |-> FALSE,
          self |-> [self EXCEPT
                      !.m_packed_data[4] = r.value.m_num_endpoints,
                      !.m_packed_data[5] = r.value.m_class,
                      !.m_packed_data[6] = r.value.m_protocol,
                      !.m_packed_data[7] = r.value.m_subclass,
                      !.m_packed_data[8] = r.value.m_str_name_idx,
                      !.m_selected_setting_number = p_number]]

set_setting_keeps_class(self, p_number) ==
    LET r == get_interface_setting(self, p_number) IN
    IF r.threw
    THEN [threw |-> TRUE, error |-> r.error, self |-> self]
    ELSE [threw |-> FALSE,
          self |-> [self EXCEPT
                      !.m_packed_data[4] = r.value.m_num_endpoints,
                      !.m_packed_data[6] = r.value.m_subclass,
                      !.m_packed_data[7] = r.value.m_protocol,
                      !.m_packed_data[8] = r.value.m_str_name_idx,
                      !.m_selected_setting_number = p_number]]

set_setting_renumbers(self, p_number) ==
    LET r == get_interface_setting(self, p_number) IN
    IF r.threw
    THEN [threw |-> TRUE, error |-> r.error, self |-> self]
    ELSE [threw |-> FALSE,
          self |-> [self EXCEPT
                      !.m_packed_data[2] = p_number,
                      !.m_packed_data[4] = r.value.m_num_endpoints,
                      !.m_packed_data[5] = r.value.m_class,
                      !.m_packed_data[6] = r.value.m_subclass,
                      !.m_packed_data[7] = r.value.m_protocol,
                      !.m_packed_data[8] = r.value.m_str_name_idx,
                      !.m_selected_setting_number = p_number]]

set_setting(self, p_number) ==
    LET r == get_interface_setting(self, p_number) IN
    IF r.threw
    THEN [threw |-> TRUE, error |-> r.error, self |-> self]
    ELSE [threw |-> FALSE,
          self |-> [self EXCEPT
                      !.m_packed_data[4] = r.value.m_num_endpoints,
                      !.m_packed_data[5] = r.value.m_class,
                      !.m_packed_data[6] = r.value.m_subclass,
                      !.m_packed_data[7] = r.value.m_protocol,
                      !.m_packed_data[8] = r.value.m_str_name_idx,
                      !.m_selected_setting_number = p_number]]

(* The constructor: bytes 0..3 are assigned, bytes 4..8 and
   m_selected_setting_number hold whatever the memory held (junk) until
   set_setting(0) assigns them; its throw leaves the constructor, and no
   object exists.  m_lengths is the state of the concrete subclass that
   total_length() reads. *)
usb_interface_skips_default(p_iface_number, p_settings_span, p_lengths, junk) ==
    LET raw == [m_packed_data |->
                   [b \in 0..(PackedSize - 1) |->
                       CASE b = 0 -> 9
                         [] b = 1 -> INTERFACE
                         [] b = 2 -> p_iface_number
                         [] b = 3 -> 0
                         [] OTHER -> junk],
                m_settings |-> p_settings_span,
                m_selected_setting_number |-> junk,
                m_lengths |-> p_lengths]
        r == get_interface_setting(raw, 0)
    IN  IF r.threw THEN [threw |-> TRUE, error |-> r.error]
                   ELSE [threw |-> FALSE, self |-> raw]

usb_interface_swallows_throw(p_iface_number, p_settings_span, p_lengths, junk) ==
    LET raw == [m_packed_data |->
                   [b \in 0..(PackedSize - 1) |->
                       CASE b = 0 -> 9
                         [] b = 1 -> INTERFACE
                         [] b = 2 -> p_iface_number
                         [] b = 3 -> 0
                         [] OTHER -> junk],
                m_settings |-> p_settings_span,
                m_selected_setting_number |-> junk,
                m_lengths |-> p_lengths]
        r == set_setting(raw, 0)
    IN  [threw |-> FALSE, self |-> r.self]

usb_interface(p_iface_number, p_settings_span, p_lengths, junk) ==
    LET raw == [m_packed_data |->
                   [b \in 0..(PackedSize - 1) |->
                       CASE b = 0 -> 9
                         [] b = 1 -> INTERFACE
                         [] b = 2 -> p_iface_number
                         [] b = 3 -> 0
                         [] OTHER -> junk],
                m_settings |-> p_settings_span,
                m_selected_setting_number |-> junk,
                m_lengths |-> p_lengths]
        r == set_setting(raw, 0)
    IN  IF r.threw THEN [threw |-> TRUE, error |-> r.error]
                   ELSE [threw |-> FALSE, self |-> r.self]

get_interface_number(self) == self.m_packed_data[2]

get_selected_setting_number(self) == self.m_selected_setting_number

(* virtual size_t total_length() = 0: the override of the concrete subclass
   may depend on the active setting; m_lengths is its table. *)
total_length(self) == self.m_lengths[self.m_selected_setting_number]

-----------------------------------------------------------------------------
(* Bitwise operators on naturals, as the code's | and & compute them *)

RECURSIVE BitOr(_, _)
BitOr(a, b) ==
    IF a = 0 THEN b
    ELSE IF b = 0 THEN a
    ELSE (IF a % 2 = 1 \/ b % 2 = 1 THEN 1 ELSE 0) + 2 * BitOr(a \div 2, b \div 2)

RECURSIVE BitAnd(_, _)
BitAnd(a, b) ==
    IF a = 0 \/ b = 0 THEN 0
    ELSE (IF a % 2 = 1 /\ b % 2 = 1 THEN 1 ELSE 0) + 2 * BitAnd(a \div 2, b \div 2)

(* A bool promoted to int and shifted left *)
ShiftBool(b, n) == (IF b THEN 1 ELSE 0) * (2 ^ n)

-----------------------------------------------------------------------------
(* pack_u16_le: { p_dat & 0xFF, (p_dat & (0xFF << 8)) >> 8 } *)

pack_u16_le_big_endian(p_dat) ==
    [b \in 0..1 |-> IF b = 0 THEN U8(BitAnd(p_dat, 255 * 256) \div 256)
                             ELSE U8(BitAnd(p_dat, 255))]

pack_u16_le_unshifted(p_dat) ==
    [b \in 0..1 |-> IF b = 0 THEN U8(BitAnd(p_dat, 255))
                             ELSE U8(BitAnd(p_dat, 255 * 256))]

pack_u16_le(p_dat) ==
    [b \in 0..1 |-> IF b = 0 THEN U8(BitAnd(p_dat, 255))
                             ELSE U8(BitAnd(p_dat, 255 * 256) \div 256)]

-----------------------------------------------------------------------------
(* usb_configuration *)

NoConfig == [m_ifaces |-> <<>>, m_packed_data |-> <<>>, constructed |-> FALSE]

(* The constructor's loop: u16 wTotalLength += iface->total_length(), the
   sum taken in size_t and cut to 16 bits by the assignment. *)
RECURSIVE sum_total_length(_, _, _, _)
sum_total_length_assigns(wTotalLength, m_ifaces, objs, k) ==
    IF k > Len(m_ifaces)
    THEN wTotalLength
    ELSE sum_total_length(U16(total_length(objs[m_ifaces[k]])), m_ifaces, objs, k + 1)

sum_total_length(wTotalLength, m_ifaces, objs, k) ==
    IF k > Len(m_ifaces)
    THEN wTotalLength
    ELSE sum_total_length(U16(wTotalLength + total_length(objs[m_ifaces[k]])),
                          m_ifaces, objs, k + 1)

(* u8 bmAttributes = 0x80 | (p_self_powered << 6) | (p_remote_wakeup << 5) *)
bmAttributes_wrong_shift(p_self_powered, p_remote_wakeup) ==
    U8(BitOr(BitOr(128, ShiftBool(p_self_powered, 5)), ShiftBool(p_remote_wakeup, 6)))

bmAttributes(p_self_powered, p_remote_wakeup) ==
    U8(BitOr(BitOr(128, ShiftBool(p_self_powered, 6)), ShiftBool(p_remote_wakeup, 5)))

(* The constructor assigns bytes 0..4, 7 and 8; bytes 5 and 6 are never
   assigned and hold whatever the memory held (junk5, junk6). *)
usb_configuration(p_ifaces, objs, p_self_powered, p_remote_wakeup, p_max_power, junk5, junk6) ==
    LET wTotalLength == sum_total_length(U16(PackedSize), p_ifaces, objs, 1)
        packed_total_length == pack_u16_le(wTotalLength)
    IN  [m_ifaces |-> p_ifaces,
         m_packed_data |->
            [b \in 0..(PackedSize - 1) |->
                CASE b = 0 -> U8(PackedSize)
                  [] b = 1 -> CONFIGURATION
                  [] b = 2 -> packed_total_length[0]
                  [] b = 3 -> packed_total_length[1]
                  [] b = 4 -> U8(Len(p_ifaces))
                  [] b = 5 -> junk5
                  [] b = 6 -> junk6
                  [] b = 7 -> bmAttributes(p_self_powered, p_remote_wakeup)
                  [] OTHER -> p_max_power],
         constructed |-> TRUE]

(* static_cast<u16>(m_packed_data[3] << 8) | static_cast<u16>(m_packed_data[2]) *)
get_total_length(self) ==
    U16(BitOr(U16(self.m_packed_data[3] * 256), U16(self.m_packed_data[2])))

get_interface_count(self) == self.m_packed_data[4]

get_number(self) == self.m_packed_data[5]

get_attributes(self) ==
    LET bm == self.m_packed_data[7] IN
    [self_powered |-> BitAnd(bm, 2 ^ 6) # 0,
     remote_wakeup |-> BitAnd(bm, 2 ^ 5) # 0]

get_max_power(self) == self.m_packed_data[8]

-----------------------------------------------------------------------------
(* Inputs *)

SettingNumbers == 0..MaxIdx

(* Arguments given to the interface_settings constructor *)
SettingArgs ==
    { <<1, HID, 1, 2, 4>>,
      <<2, VENDOR_SPECIFIC, 66, 80, 5>>,
      <<0, CDC_DATA, 0, 0, 0>>,
      <<1, USE_INTERFACE_DESCRIPTOR, 0, 0, 0>>,
      <<1, HUB, 0, 1, 0>>,
      <<3, BILLBOARD, 0, 0, 7>> }

(* Arguments covering every class code of the enumeration *)
AllClassArgs ==
    { <<ne, c, 1, 2, s>> : ne \in {0, 2, 255}, c \in usb_class_code, s \in {0, 4} }

IfaceNumbers == {0, 1}

(* Tables of the concrete subclass: total_length() per active setting *)
HeaderOnly == [n \in SettingNumbers |-> 9]
HeaderAndEndpoints == [n \in SettingNumbers |-> 9 + 7 * (n + 1)]
Huge == [n \in SettingNumbers |-> 65527]

(* Interfaces built for a configuration: a settings array and a table *)
SampleIfaces ==
    { [settings |-> << <<0, interface_settings(1, HID, 1, 2, 4).value>> >>,
       lengths |-> HeaderOnly],
      [settings |-> << <<0, interface_settings(1, HID, 1, 2, 4).value>>,
                       <<1, interface_settings(2, VENDOR_SPECIFIC, 66, 80, 5).value>> >>,
       lengths |-> HeaderAndEndpoints],
      [settings |-> << <<0, interface_settings(0, CDC_DATA, 0, 0, 0).value>> >>,
       lengths |-> Huge] }

MaxPowers == {0, 50, 255}

JunkPairs == { <<0, 0>>, <<165, 90>> }

(* Sequences of distinct pointers to constructed interfaces *)
PointerSeqs(n) ==
    UNION { { f \in [1..m -> 1..n] : \A a, b \in 1..m : a # b => f[a] # f[b] }
            : m \in 0..n }

-----------------------------------------------------------------------------
(* Actions: one per call *)

(* No device_descriptor constructed; no driver call made *)
NoDescriptor == [constructed |-> FALSE]
NoCalls == [calls |-> <<>>, outcome |-> "none", returned |-> "none"]

(* What a call that threw reported *)
Thrown(r) == IF r.threw THEN r.error ELSE "none"

Init ==
    /\ p_settings = <<>>
    /\ ifaces = <<>>
    /\ config = NoConfig
    /\ pc = "idle"
    /\ w_next = 0
    /\ dispatched = <<>>
    /\ built_from = <<>>
    /\ ctrl_endpoint = <<>>
    /\ descriptor = NoDescriptor
    /\ driver = NoCalls
    /\ last = [op |-> "none", arg |-> <<>>, threw |-> FALSE, error |-> "none"]

(* The caller constructs an interface_settings and, when the constructor
   returns, stores it under idx in its array (capacity cap). *)
NewSetting(cap, idx, a) ==
    /\ pc = "idle"
    /\ Len(p_settings) < cap
    /\ LET r == interface_settings(a[1], a[2], a[3], a[4], a[5]) IN
       /\ p_settings' = IF r.threw THEN p_settings
                                   ELSE Append(p_settings, <<idx, r.value>>)
       /\ last' = [op |-> "interface_settings", arg |-> <<idx, a>>,
                   threw |-> r.threw, error |-> Thrown(r)]
    /\ UNCHANGED <<ifaces, config, pc, w_next, dispatched, built_from,
                 ctrl_endpoint, descriptor, driver>>

(* usb_interface's constructor over the span p_span; the object exists only
   when the constructor returns. *)
ConstructInterface(cap, p_iface_number, p_span, p_lengths, junk) ==
    /\ pc = "idle"
    /\ Len(ifaces) < cap
    /\ LET r == usb_interface(p_iface_number, p_span, p_lengths, junk) IN
       /\ ifaces' = IF r.threw THEN ifaces ELSE Append(ifaces, r.self)
       /\ p_settings' = IF r.threw THEN p_settings ELSE <<>>
       /\ last' = [op |-> "usb_interface", arg |-> <<p_iface_number, p_span>>,
                   threw |-> r.threw, error |-> Thrown(r)]
    /\ UNCHANGED <<config, pc, w_next, dispatched, built_from,
                 ctrl_endpoint, descriptor, driver>>

SetSetting_repacks(k, p_number) ==
    /\ pc = "idle"
    /\ k \in 1..Len(ifaces)
    /\ LET r == set_setting(ifaces[k], p_number) IN
       /\ ifaces' = [ifaces EXCEPT ![k] = r.self]
       /\ last' = [op |-> "set_setting", arg |-> <<k, p_number>>,
                   threw |-> r.threw, error |-> Thrown(r)]
    /\ config' =
          IF config.constructed
          THEN LET two == pack_u16_le(sum_total_length(U16(PackedSize), config.m_ifaces,
                                                       ifaces', 1))
               IN  [config EXCEPT !.m_packed_data[2] = two[0],
                                  !.m_packed_data[3] = two[1]]
          ELSE config
    /\ UNCHANGED <<p_settings, pc, w_next, dispatched, built_from,
                   ctrl_endpoint, descriptor, driver>>

(* set_setting(p_number) on interface k *)
SetSetting(k, p_number) ==
    /\ pc = "idle"
    /\ k \in 1..Len(ifaces)
    /\ LET r == set_setting(ifaces[k], p_number) IN
       /\ ifaces' = [ifaces EXCEPT ![k] = r.self]
       /\ last' = [op |-> "set_setting", arg |-> <<k, p_number>>,
                   threw |-> r.threw, error |-> Thrown(r)]
    /\ UNCHANGED <<p_settings, config, pc, w_next, dispatched, built_from,
                 ctrl_endpoint, descriptor, driver>>

(* get_interface_setting(p_number) on interface k: the object is left as it
   is; value is the setting the returned reference names *)
GetInterfaceSetting(k, p_number) ==
    /\ pc = "idle"
    /\ k \in 1..Len(ifaces)
    /\ LET r == get_interface_setting(ifaces[k], p_number) IN
       last' = IF r.threw
               THEN [op |-> "get_interface_setting", arg |-> <<k, p_number>>,
                     threw |-> TRUE, error |-> r.error]
               ELSE [op |-> "get_interface_setting", arg |-> <<k, p_number>>,
                     threw |-> FALSE, error |-> "none", value |-> r.value]
    /\ UNCHANGED <<usb_vars, descriptor, driver>>

(* usb_configuration's constructor over the pointers p_ifaces *)
ConstructConfiguration(p_ifaces, p_self_powered, p_remote_wakeup, p_max_power, junk) ==
    /\ pc = "idle"
    /\ ~config.constructed
    /\ config' = usb_configuration(p_ifaces, ifaces, p_self_powered, p_remote_wakeup,
                                   p_max_power, junk[1], junk[2])
    /\ built_from' = [k \in 1..Len(p_ifaces) |-> total_length(ifaces[p_ifaces[k]])]
    /\ last' = [op |-> "usb_configuration",
                arg |-> <<p_ifaces, p_self_powered, p_remote_wakeup, p_max_power>>,
                threw |-> FALSE, error |-> "none"]
    /\ UNCHANGED <<p_settings, ifaces, pc, w_next, dispatched,
                 ctrl_endpoint, descriptor, driver>>

(* write_descriptors, statement by statement: p_dispatch(m_packed_data) *)
WriteHeader ==
    /\ pc = "idle"
    /\ config.constructed
    /\ dispatched' = Append(dispatched,
                            [from |-> 0, size |-> PackedSize,
                             data |-> config.m_packed_data])
    /\ pc' = "writing"
    /\ w_next' = 1
    /\ last' = [op |-> "write_descriptors", arg |-> <<>>, threw |-> FALSE,
                error |-> "none"]
    /\ UNCHANGED <<p_settings, ifaces, config, built_from,
                 ctrl_endpoint, descriptor, driver>>

WriteInterface_reversed ==
    /\ pc = "writing"
    /\ w_next <= Len(config.m_ifaces)
    /\ LET iface == config.m_ifaces[Len(config.m_ifaces) + 1 - w_next] IN
       dispatched' = Append(dispatched,
                            [from |-> iface, size |-> total_length(ifaces[iface]),
                             data |-> <<>>])
    /\ w_next' = w_next + 1
    /\ UNCHANGED <<p_settings, ifaces, config, pc, built_from, last,
                 ctrl_endpoint, descriptor, driver>>

(* one turn of the loop: iface->write_descriptors(p_dispatch), which pushes
   total_length() bytes of that interface *)
WriteInterface ==
    /\ pc = "writing"
    /\ w_next <= Len(config.m_ifaces)
    /\ LET iface == config.m_ifaces[w_next] IN
       dispatched' = Append(dispatched,
                            [from |-> iface, size |-> total_length(ifaces[iface]),
                             data |-> <<>>])
    /\ w_next' = w_next + 1
    /\ UNCHANGED <<p_settings, ifaces, config, pc, built_from, last,
                 ctrl_endpoint, descriptor, driver>>

(* the loop ends and the call returns; the sink of this call is gone *)
WriteReturn ==
    /\ pc = "writing"
    /\ w_next > Len(config.m_ifaces)
    /\ pc' = "idle"
    /\ w_next' = 0
    /\ dispatched' = <<>>
    /\ UNCHANGED <<p_settings, ifaces, config, built_from, last,
                 ctrl_endpoint, descriptor, driver>>

-----------------------------------------------------------------------------
(* Specifications *)

(* One interface: the caller fills a settings array, constructs the
   interface over it and selects settings. *)
Next ==
    \/ \E idx \in SettingNumbers, a \in SettingArgs :
          ifaces = <<>> /\ NewSetting(MaxSettings, idx, a)
    \/ \E n \in IfaceNumbers, junk \in Junk :
          ConstructInterface(1, n, p_settings, HeaderOnly, junk)
    \/ \E k \in 1..Len(ifaces), n \in 0..(MaxIdx + 1) : SetSetting(k, n)
    \/ \E k \in 1..Len(ifaces), n \in 0..(MaxIdx + 1) : GetInterfaceSetting(k, n)

Spec == Init /\ [][Next]_vars

(* The interface_settings constructor alone, over the whole enumeration *)
NextSettings ==
    \E a \in AllClassArgs : NewSetting(1, 0, a)

SpecSettings == Init /\ [][NextSettings]_vars

(* pack_u16_le alone, over every 16-bit value: the argument is drawn at the
   start, the call records its argument and the two bytes returned *)
U16Values == 0..65535

InitPack ==
    /\ p_settings = <<>>
    /\ ifaces = <<>>
    /\ config = NoConfig
    /\ pc = "idle"
    /\ w_next = 0
    /\ dispatched = <<>>
    /\ built_from = <<>>
    /\ ctrl_endpoint = <<>>
    /\ descriptor = NoDescriptor
    /\ driver = NoCalls
    /\ \E v \in U16Values :
          last = [op |-> "none", arg |-> <<v>>, threw |-> FALSE, error |-> "none"]

PackU16 ==
    /\ last.op = "none"
    /\ last' = [op |-> "pack_u16_le",
                arg |-> <<last.arg[1], pack_u16_le(last.arg[1])>>,
                threw |-> FALSE, error |-> "none"]
    /\ UNCHANGED <<p_settings, ifaces, config, pc, w_next, dispatched, built_from,
                 ctrl_endpoint, descriptor, driver>>

SpecPack == InitPack /\ [][PackU16]_vars

(* A configuration over interfaces numbered in construction order *)
NextCfg ==
    \/ \E s \in SampleIfaces, junk \in Junk :
          ~config.constructed
          /\ ConstructInterface(MaxIfaces, Len(ifaces), s.settings, s.lengths, junk)
    \/ \E k \in 1..Len(ifaces), n \in SettingNumbers : SetSetting(k, n)
    \/ \E p \in PointerSeqs(Len(ifaces)), sp \in BOOLEAN, rw \in BOOLEAN,
          mp \in MaxPowers, junk \in JunkPairs :
          ConstructConfiguration(p, sp, rw, mp, junk)
    \/ WriteHeader
    \/ WriteInterface
    \/ WriteReturn

SpecCfg == Init /\ [][NextCfg]_vars

-----------------------------------------------------------------------------
(* usb_descriptor, injector<usb_descriptor> and device_descriptor *)

DEVICE == 1

(* A caller-owned buffer of n bytes, and the span over the whole of it *)
Buffer(n, fill) == [i \in 0..(n - 1) |-> fill]

Span(buf) == [from |-> 0, size |-> Cardinality(DOMAIN buf)]

(* usb_descriptor::usb_descriptor: the three members, m_data being the span
   over the caller's buffer (the model keeps the buffer's bytes in it) *)
usb_descriptor(p_bDescriptionType, p_data_buf, p_length) ==
    [bDescriptionType |-> p_bDescriptionType,
     bLength |-> p_length,
     m_data |-> p_data_buf]

pack_type_first(self) ==
    LET d == [self.m_data EXCEPT ![0] = self.bDescriptionType, ![1] = self.bLength]
    IN  [self |-> [self EXCEPT !.m_data = d], span |-> Span(d)]

(* usb_descriptor::pack: m_data[0] = bLength; m_data[1] = bDescriptionType;
   return m_data *)
pack(self) ==
    LET d == [self.m_data EXCEPT ![0] = self.bLength, ![1] = self.bDescriptionType]
    IN  [self |-> [self EXCEPT !.m_data = d], span |-> Span(d)]

(* device_descriptor::device_descriptor: the base is built with DEVICE, the
   caller's buffer and 18; eleven members are copied from the arguments;
   bMaxPacketSize gets no value (junk).  steps lists what the last pack()
   has run so far, returned is the span it gave back. *)
device_descriptor(p_data_buf, a, junk) ==
    LET base == usb_descriptor(DEVICE, p_data_buf, 18) IN
    [constructed |-> TRUE,
     bDescriptionType |-> base.bDescriptionType,
     bLength |-> base.bLength,
     m_data |-> base.m_data,
     bcdUSB |-> a.bcdUSB,
     bDeviceClass |-> a.bDeviceClass,
     bDeviceSubClass |-> a.bDeviceSubClass,
     bDeviceProtocol |-> a.bDeviceProtocol,
     bMaxPacketSize |-> junk,
     idVendor |-> a.idVendor,
     idProduct |-> a.idProduct,
     bcdDevice |-> a.bcdDevice,
     iManufacturer |-> a.iManufacturer,
     iProduct |-> a.iProduct,
     iSerialNumber |-> a.iSerialNumber,
     bNumConfigurations |-> a.bNumConfigurations,
     steps |-> <<>>,
     returned |-> [from |-> 0, size |-> 0]]

(* device_descriptor::descriptor_pack: offset is computed and not used,
   nothing is written, m_data is returned *)
descriptor_pack(self) ==
    [self |-> self, span |-> Span(self.m_data)]

BufferSizes == {2, 18, 20}

DeviceArgs ==
    { [bcdUSB |-> 512, bDeviceClass |-> 0, bDeviceSubClass |-> 0,
       bDeviceProtocol |-> 0, idVendor |-> 4660, idProduct |-> 22136,
       bcdDevice |-> 256, iManufacturer |-> 1, iProduct |-> 2,
       iSerialNumber |-> 3, bNumConfigurations |-> 1],
      [bcdUSB |-> 272, bDeviceClass |-> 255, bDeviceSubClass |-> 1,
       bDeviceProtocol |-> 1, idVendor |-> 65535, idProduct |-> 1,
       bcdDevice |-> 1, iManufacturer |-> 0, iProduct |-> 0,
       iSerialNumber |-> 0, bNumConfigurations |-> 2] }

ConstructDevice(n, fill, a, junk) ==
    /\ pc = "idle"
    /\ ~descriptor.constructed
    /\ descriptor' = device_descriptor(Buffer(n, fill), a, junk)
    /\ last' = [op |-> "device_descriptor", arg |-> <<n, a>>, threw |-> FALSE,
                error |-> "none"]
    /\ UNCHANGED <<usb_vars, driver>>

(* The buffer is the caller's: between calls it may write into it *)
CallerWrites(i, b) ==
    /\ pc = "idle"
    /\ descriptor.constructed
    /\ i \in DOMAIN descriptor.m_data
    /\ descriptor' = [descriptor EXCEPT !.m_data[i] = b]
    /\ last' = [op |-> "caller_write", arg |-> <<i, b>>, threw |-> FALSE,
                error |-> "none"]
    /\ UNCHANGED <<usb_vars, driver>>

(* injector::pack, first statement: Base::pack(); its result is dropped *)
PackBase ==
    /\ pc = "idle"
    /\ descriptor.constructed
    /\ descriptor' = [pack(descriptor).self EXCEPT !.steps = <<"Base::pack">>]
    /\ pc' = "base_packed"
    /\ last' = [op |-> "pack", arg |-> <<>>, threw |-> FALSE, error |-> "none"]
    /\ UNCHANGED <<p_settings, ifaces, config, w_next, dispatched, built_from,
                   ctrl_endpoint, driver>>

(* injector::pack, second statement: return descriptor_pack() *)
PackPayload ==
    /\ pc = "base_packed"
    /\ LET r == descriptor_pack(descriptor) IN
       descriptor' = [r.self EXCEPT !.steps = Append(@, "descriptor_pack"),
                                    !.returned = r.span]
    /\ pc' = "idle"
    /\ UNCHANGED <<p_settings, ifaces, config, w_next, dispatched, built_from,
                   ctrl_endpoint, driver, last>>

NextDesc ==
    \/ \E n \in BufferSizes, fill \in Junk, a \in DeviceArgs, junk \in Junk :
          ConstructDevice(n, fill, a, junk)
    \/ \E i \in 0..1, b \in Junk : CallerWrites(i, b)
    \/ PackBase
    \/ PackPayload

SpecDesc == Init /\ [][NextDesc]_vars

-----------------------------------------------------------------------------
(* The peripheral interfaces: hal::serial, hal::v5::serial, spi, socket.
   Every public operation is given its arguments and d, what the driver's
   implementation of the private operation does when called: it returns a
   value or throws.  The operation yields the driver calls it made, in
   order, and its own result. *)

Returns(v) == [threw |-> FALSE, value |-> v]
Throws(e) == [threw |-> TRUE, value |-> e]
Void == Returns("void")

DriverCall(op, arg) == [op |-> op, arg |-> arg]

(* hal::serial *)
serial_configure(p_new_settings, d) ==
    [calls |-> <<DriverCall("driver_configure", <<p_new_settings>>)>>, result |-> d]

serial_write(p_data, d) ==
    [calls |-> <<DriverCall("driver_write", <<p_data>>)>>, result |-> d]

serial_read_calls_twice(p_data, d) ==
    [calls |-> <<DriverCall("driver_read", <<p_data>>),
                 DriverCall("driver_read", <<p_data>>)>>, result |-> d]

serial_read(p_data, d) ==
    [calls |-> <<DriverCall("driver_read", <<p_data>>)>>, result |-> d]

serial_flush(d) ==
    [calls |-> <<DriverCall("driver_flush", <<>>)>>, result |-> d]

(* hal::v5::serial *)
v5_serial_configure(p_new_settings, d) ==
    [calls |-> <<DriverCall("driver_configure", <<p_new_settings>>)>>, result |-> d]

v5_serial_write(p_data, d) ==
    [calls |-> <<DriverCall("driver_write", <<p_data>>)>>, result |-> d]

v5_serial_receive_buffer(d) ==
    [calls |-> <<DriverCall("driver_receive_buffer", <<>>)>>, result |-> d]

v5_serial_receive_cursor(d) ==
    [calls |-> <<DriverCall("driver_cursor", <<>>)>>, result |-> d]

(* spi *)
spi_configure(p_new_settings, d) ==
    [calls |-> <<DriverCall("driver_configure", <<p_new_settings>>)>>, result |-> d]

spi_transfer(p_data_out, p_data_in, p_filler, d) ==
    [calls |-> <<DriverCall("driver_transfer", <<p_data_out, p_data_in, p_filler>>)>>,
     result |-> d]

(* socket *)
socket_write(p_data, d) ==
    [calls |-> <<DriverCall("driver_write", <<p_data>>)>>, result |-> d]

socket_read(p_data, d) ==
    [calls |-> <<DriverCall("driver_read", <<p_data>>)>>, result |-> d]

(* Arguments a caller passes *)
SerialSettings ==
    { [baud_rate |-> 115200, stop |-> "one", parity |-> "none"],
      [baud_rate |-> 9600, stop |-> "two", parity |-> "even"] }

SpiSettings ==
    { [clock_rate |-> 100000, clock_polarity |-> FALSE, clock_phase |-> FALSE],
      [clock_rate |-> 1000000, clock_polarity |-> TRUE, clock_phase |-> TRUE] }

DataOut == { <<>>, <<1>>, <<1, 2>> }

(* A buffer to read into: its size *)
DataIn == 0..2

Fillers == {0, 255}

(* What a driver can do when called *)
DriverErrors == {"operation_not_supported", "io_error"}

VoidOutcomes == {Void} \cup {Throws(e) : e \in DriverErrors}

WriteOutcomes(p_data) ==
    {Returns([data |-> SubSeq(p_data, 1, n)]) : n \in 0..Len(p_data)}
        \cup {Throws(e) : e \in DriverErrors}

ReadOutcomes(p_data) ==
    UNION { {Returns([data |-> n, available |-> a, capacity |-> 2]) : a \in {n, 3}} :
              n \in 0..p_data }
        \cup {Throws(e) : e \in DriverErrors}

BufferOutcomes == {Returns(b) : b \in DataOut} \cup {Throws(e) : e \in DriverErrors}

CursorOutcomes == {Returns(c) : c \in 0..2} \cup {Throws(e) : e \in DriverErrors}

(* A public operation was called with arg, the driver did d, and the
   operation made r.calls and ended with r.result *)
Called(name, arg, d, r) ==
    /\ pc = "idle"
    /\ driver' = [calls |-> r.calls, outcome |-> d, returned |-> r.result]
    /\ last' = [op |-> name, arg |-> arg, threw |-> r.result.threw,
                error |-> IF r.result.threw THEN r.result.value ELSE "none"]
    /\ UNCHANGED <<usb_vars, descriptor>>

SerialConfigure(p_new_settings, d) ==
    Called("serial::configure", <<p_new_settings>>, d, serial_configure(p_new_settings, d))

SerialWrite(p_data, d) ==
    Called("serial::write", <<p_data>>, d, serial_write(p_data, d))

SerialRead(p_data, d) ==
    Called("serial::read", <<p_data>>, d, serial_read(p_data, d))

SerialFlush(d) ==
    Called("serial::flush", <<>>, d, serial_flush(d))

V5SerialConfigure(p_new_settings, d) ==
    Called("v5::serial::configure", <<p_new_settings>>, d, v5_serial_configure(p_new_settings, d))

V5SerialWrite(p_data, d) ==
    Called("v5::serial::write", <<p_data>>, d, v5_serial_write(p_data, d))

V5SerialReceiveBuffer(d) ==
    Called("v5::serial::receive_buffer", <<>>, d, v5_serial_receive_buffer(d))

V5SerialReceiveCursor(d) ==
    Called("v5::serial::receive_cursor", <<>>, d, v5_serial_receive_cursor(d))

SpiConfigure(p_new_settings, d) ==
    Called("spi::configure", <<p_new_settings>>, d, spi_configure(p_new_settings, d))

SpiTransfer(p_data_out, p_data_in, p_filler, d) ==
    Called("spi::transfer", <<p_data_out, p_data_in, p_filler>>, d,
           spi_transfer(p_data_out, p_data_in, p_filler, d))

SocketWrite(p_data, d) ==
    Called("socket::write", <<p_data>>, d, socket_write(p_data, d))

SocketRead(p_data, d) ==
    Called("socket::read", <<p_data>>, d, socket_read(p_data, d))

NextPeripheral ==
    \/ \E st \in SerialSettings, d \in VoidOutcomes : SerialConfigure(st, d)
    \/ \E b \in DataOut : \E d \in WriteOutcomes(b) : SerialWrite(b, d)
    \/ \E b \in DataIn : \E d \in ReadOutcomes(b) : SerialRead(b, d)
    \/ \E d \in VoidOutcomes : SerialFlush(d)
    \/ \E st \in SerialSettings, d \in VoidOutcomes : V5SerialConfigure(st, d)
    \/ \E b \in DataOut, d \in VoidOutcomes : V5SerialWrite(b, d)
    \/ \E d \in BufferOutcomes : V5SerialReceiveBuffer(d)
    \/ \E d \in CursorOutcomes : V5SerialReceiveCursor(d)
    \/ \E st \in SpiSettings, d \in VoidOutcomes : SpiConfigure(st, d)
    \/ \E o \in DataOut, i \in DataIn, f \in Fillers, d \in VoidOutcomes :
          SpiTransfer(o, i, f, d)
    \/ \E b \in DataOut : \E d \in WriteOutcomes(b) : SocketWrite(b, d)
    \/ \E b \in DataIn : \E d \in ReadOutcomes(b) : SocketRead(b, d)

SpecPeripheral == Init /\ [][NextPeripheral]_vars

-----------------------------------------------------------------------------
(* What the claims speak of *)

(* The settings array m has an entry for index i *)
HasIndex(m, i) == \E j \in 1..Len(m) : m[j][1] = i

(* The setting registered under i: that of the entry for i (the first one,
   should the array name i twice) *)
Registered(m, i) ==
    m[CHOOSE j \in 1..Len(m) :
         m[j][1] = i /\ \A h \in 1..(j - 1) : m[h][1] # i][2]

(* Header bytes 4..8 of an interface are the five fields of setting s *)
HeaderShows(obj, s) ==
    /\ obj.m_packed_data[4] = s.m_num_endpoints
    /\ obj.m_packed_data[5] = s.m_class
    /\ obj.m_packed_data[6] = s.m_subclass
    /\ obj.m_packed_data[7] = s.m_protocol
    /\ obj.m_packed_data[8] = s.m_str_name_idx

RECURSIVE SumSeq(_)
SumSeq(q) == IF q = <<>> THEN 0 ELSE Head(q) + SumSeq(Tail(q))

(* total_length() of each interface the configuration borrows, now *)
CurrentLengths == [k \in 1..Len(config.m_ifaces) |-> total_length(ifaces[config.m_ifaces[k]])]

(* The bytes the sink has received in the running call *)
BytesPushed == SumSeq([j \in 1..Len(dispatched) |-> dispatched[j].size])

(* write_descriptors has made its last push and is about to return *)
WriteComplete == pc = "writing" /\ w_next > Len(config.m_ifaces)

-----------------------------------------------------------------------------
(* C1: set_setting(i) for an index i present in the settings of the
   interface succeeds; afterwards get_selected_setting_number() is i and
   header bytes 4, 5, 6, 7, 8 are the endpoint count, class code, subclass,
   protocol and string index of the setting registered under i. *)
C1_SetSettingSelects ==
    last.op = "set_setting" =>
        LET obj == ifaces[last.arg[1]]
            i == last.arg[2]
        IN  HasIndex(obj.m_settings, i) =>
                /\ ~last.threw
                /\ get_selected_setting_number(obj) = i
                /\ HeaderShows(obj, Registered(obj.m_settings, i))

C1_Witness ==
    /\ last.op = "set_setting"
    /\ ~last.threw
    /\ last.arg[2] = 1
    /\ ifaces[last.arg[1]].m_packed_data[5] = VENDOR_SPECIFIC
    /\ ifaces[last.arg[1]].m_packed_data[6] = 66

(* C2: set_setting(i) for an index i absent from the settings fails with
   argument_out_of_domain and leaves the nine header bytes and the active
   setting index of every interface as they were before the call. *)
C2_FailedSetSettingChangesNothing ==
    [][ (last'.op = "set_setting"
         /\ ~HasIndex(ifaces[last'.arg[1]].m_settings, last'.arg[2]))
        => /\ last'.threw
           /\ last'.error = argument_out_of_domain
           /\ ifaces' = ifaces ]_vars

C2_Witness ==
    /\ last.op = "set_setting"
    /\ last.threw
    /\ get_selected_setting_number(ifaces[last.arg[1]]) = 1

(* C3: an interface constructed over settings that contain index 0 has
   get_selected_setting_number() = 0 when its constructor returns. *)
C3_ConstructedSelectsZero ==
    (last.op = "usb_interface" /\ HasIndex(last.arg[2], 0)) =>
        /\ ~last.threw
        /\ get_selected_setting_number(ifaces[Len(ifaces)]) = 0

C3_Witness ==
    /\ last.op = "usb_interface"
    /\ ~last.threw
    /\ HasIndex(last.arg[2], 1)
    /\ get_selected_setting_number(ifaces[Len(ifaces)]) = 0

(* C4: constructing an interface over settings with no entry for index 0
   throws argument_out_of_domain, whatever other indices there are, and no
   interface object results. *)
C4_NoIndexZeroFails ==
    [][ (last'.op = "usb_interface" /\ ~HasIndex(last'.arg[2], 0))
        => /\ last'.threw
           /\ last'.error = argument_out_of_domain
           /\ ifaces' = ifaces ]_vars

C4_Witness ==
    /\ last.op = "usb_interface"
    /\ last.threw
    /\ HasIndex(last.arg[2], 1)
    /\ ifaces = <<>>

(* C5: the interface_settings constructor throws argument_out_of_domain and
   yields no object for the class codes 0x00, 0x09 and 0x11; for every
   other class code of the enumeration it returns an object that holds that
   class code. *)
C5_IllegalClassRejected ==
    [][ last'.op = "interface_settings" =>
          LET idx == last'.arg[1]
              a == last'.arg[2]
          IN  IF a[2] \in {0, 9, 17}
              THEN /\ last'.threw
                   /\ last'.error = argument_out_of_domain
                   /\ p_settings' = p_settings
              ELSE /\ ~last'.threw
                   /\ Len(p_settings') = Len(p_settings) + 1
                   /\ p_settings'[Len(p_settings')][1] = idx
                   /\ p_settings'[Len(p_settings')][2].m_class = a[2] ]_vars

C5_Witness ==
    /\ last.op = "interface_settings"
    /\ last.threw
    /\ last.arg[2][2] = HUB
    /\ p_settings = <<>>

(* C6: in every state the class byte (byte 5) of every interface's header
   is none of 0x00, 0x09, 0x11. *)
C6_HeaderClassLegal ==
    \A k \in 1..Len(ifaces) : ifaces[k].m_packed_data[5] \notin {0, 9, 17}

C6_Witness ==
    /\ last.op = "set_setting"
    /\ last.threw
    /\ get_selected_setting_number(ifaces[last.arg[1]]) = 1
    /\ ifaces[last.arg[1]].m_packed_data[5] = VENDOR_SPECIFIC

(* C7, as claimed: get_total_length() is exactly 9 plus the sum of the
   interfaces' total_length(), also when that does not fit in 16 bits, and
   bytes 2 and 3 hold it low byte first. *)
C7_Original ==
    last.op = "usb_configuration" =>
        /\ get_total_length(config) = 9 + SumSeq(built_from)
        /\ config.m_packed_data[2] = (9 + SumSeq(built_from)) % 256
        /\ config.m_packed_data[3] = (9 + SumSeq(built_from)) \div 256

(* C7, amended: get_total_length() is 9 plus the sum of the total_length()
   values read at construction, modulo 2^16 (so exactly that sum whenever it
   fits in 16 bits), and bytes 2 and 3 hold it low byte first. *)
C7_TotalLengthMod16 ==
    config.constructed =>
        LET exact == 9 + SumSeq(built_from) IN
        /\ get_total_length(config) = exact % 65536
        /\ (exact <= 65535 => get_total_length(config) = exact)
        /\ config.m_packed_data[2] = get_total_length(config) % 256
        /\ config.m_packed_data[3] = get_total_length(config) \div 256

C7_Witness ==
    /\ last.op = "usb_configuration"
    /\ Len(config.m_ifaces) = 2
    /\ 9 + SumSeq(built_from) > 65535
    /\ get_total_length(config) = (9 + SumSeq(built_from)) - 65536

(* C8: write_descriptors pushes the configuration's own 9-byte header
   first and once, then invokes write_descriptors of every borrowed
   interface once, in the order of m_ifaces; after the last interface the
   loop is over and the call returns. *)
C8_HeaderThenInterfacesInOrder ==
    /\ pc = "idle" => dispatched = <<>>
    /\ pc = "writing" =>
          /\ w_next \in 1..(Len(config.m_ifaces) + 1)
          /\ Len(dispatched) = w_next
          /\ dispatched[1].from = 0
          /\ dispatched[1].size = 9
          /\ dispatched[1].data = config.m_packed_data
          /\ Cardinality({ j \in 1..Len(dispatched) : dispatched[j].from = 0 }) = 1
          /\ \A j \in 2..Len(dispatched) : dispatched[j].from = config.m_ifaces[j - 1]
          /\ (WriteComplete =>
                /\ Len(dispatched) = 1 + Len(config.m_ifaces)
                /\ ENABLED WriteReturn
                /\ ~ENABLED WriteInterface)
          /\ (~WriteComplete => ENABLED WriteInterface /\ ~ENABLED WriteReturn)

C8_Witness ==
    /\ WriteComplete
    /\ config.m_ifaces = <<2, 1>>
    /\ dispatched[2].from = 2
    /\ dispatched[3].from = 1

(* C9, as claimed (in the cases where the bytes pushed fit the 16-bit
   field): the bytes one write_descriptors call pushes equal
   get_total_length(), also after set_setting has given a borrowed
   interface another total_length() than it had at construction. *)
C9_Original ==
    (WriteComplete /\ BytesPushed <= 65535) =>
        BytesPushed = get_total_length(config)

(* C9, amended: the bytes one write_descriptors call pushes are 9 plus the
   sum of the interfaces' current total_length(); they equal
   get_total_length() when every borrowed interface has the total_length()
   it had when the configuration was constructed and the sum fits in 16
   bits. *)
C9_BytesPushedWhenUnchanged ==
    WriteComplete =>
        /\ BytesPushed = 9 + SumSeq(CurrentLengths)
        /\ (CurrentLengths = built_from /\ BytesPushed <= 65535)
              => BytesPushed = get_total_length(config)

C9_Witness ==
    /\ WriteComplete
    /\ Len(config.m_ifaces) = 2
    /\ CurrentLengths = built_from
    /\ BytesPushed <= 65535
    /\ \E k \in 1..Len(ifaces) : get_selected_setting_number(ifaces[k]) = 1
    /\ BytesPushed = get_total_length(config)

(* C10: for the self_powered, remote_wakeup and max_power given to the
   constructor, header byte 7 is 0x80 + 0x40*self_powered +
   0x20*remote_wakeup with bits 0..4 clear, byte 8 is max_power,
   get_attributes() returns the two flags and get_max_power() returns
   max_power; (true, false, 50) gives 0xC0 and 50. *)
C10_AttributesAndMaxPower ==
    last.op = "usb_configuration" =>
        LET sp == last.arg[2]
            rw == last.arg[3]
            mp == last.arg[4]
        IN  /\ config.m_packed_data[7] =
                  128 + (IF sp THEN 64 ELSE 0) + (IF rw THEN 32 ELSE 0)
            /\ config.m_packed_data[7] % 32 = 0
            /\ config.m_packed_data[8] = mp
            /\ get_attributes(config) = [self_powered |-> sp, remote_wakeup |-> rw]
            /\ get_max_power(config) = mp
            /\ ((sp /\ ~rw /\ mp = 50) =>
                   config.m_packed_data[7] = 192 /\ config.m_packed_data[8] = 50)

C10_Witness ==
    /\ last.op = "usb_configuration"
    /\ last.arg[2] /\ ~last.arg[3] /\ last.arg[4] = 50
    /\ config.m_packed_data[7] = 192
    /\ get_max_power(config) = 50

(* A configuration header whose bytes 2 and 3 are the two bytes given *)
HeaderWithLength(two) ==
    [m_packed_data |-> [b \in 0..(PackedSize - 1) |->
                           IF b = 2 THEN two[0] ELSE IF b = 3 THEN two[1] ELSE 0]]

(* C11: for every 16-bit v, pack_u16_le(v) is the two bytes v mod 256 and
   v div 256, low byte first, and decoding them as get_total_length()
   decodes bytes 2 and 3 gives v again; pack_u16_le(0x1234) is
   {0x34, 0x12}. *)
C11_PackRoundTrip ==
    last.op = "pack_u16_le" =>
        LET v == last.arg[1]
            two == last.arg[2]
        IN  /\ DOMAIN two = 0..1
            /\ two[0] = v % 256
            /\ two[1] = v \div 256
            /\ get_total_length(HeaderWithLength(two)) = v
            /\ (v = 4660 => two[0] = 52 /\ two[1] = 18)

C11_Witness ==
    /\ last.op = "pack_u16_le"
    /\ last.arg[1] = 4660
    /\ last.arg[2][0] = 52
    /\ last.arg[2][1] = 18

(* C12: every set_setting call that succeeds hands the control endpoint at
   least one buffer to write as part of the call, and a call that fails
   leaves the control endpoint alone. *)
C12_SetSettingNotifiesControlEndpoint ==
    [][ last'.op = "set_setting" =>
          IF last'.threw
          THEN ctrl_endpoint' = ctrl_endpoint
          ELSE Len(ctrl_endpoint') > Len(ctrl_endpoint) ]_vars

(* C13: in every state get_interface_number() is header byte 2 and
   get_selected_setting_number() is header byte 3 (bAlternateSetting), so
   the header always carries the active alternate-setting index. *)
C13_AccessorsReadHeader ==
    \A k \in 1..Len(ifaces) :
        /\ get_interface_number(ifaces[k]) = ifaces[k].m_packed_data[2]
        /\ get_selected_setting_number(ifaces[k]) = ifaces[k].m_packed_data[3]

(* C14: once constructed, the configuration's nine header bytes never
   change, whatever is called afterwards, so get_total_length(),
   get_interface_count(), get_number(), get_attributes() and
   get_max_power() keep returning the same values. *)
C14_ConfigurationHeaderWriteOnce ==
    [][ config.constructed =>
          /\ config'.constructed
          /\ config'.m_packed_data = config.m_packed_data
          /\ get_total_length(config') = get_total_length(config)
          /\ get_interface_count(config') = get_interface_count(config)
          /\ get_number(config') = get_number(config)
          /\ get_attributes(config') = get_attributes(config)
          /\ get_max_power(config') = get_max_power(config) ]_vars

C14_Witness ==
    /\ config.constructed
    /\ last.op = "set_setting"
    /\ ~last.threw
    /\ CurrentLengths # built_from
    /\ get_total_length(config) = 9 + SumSeq(built_from)

(* C15: two configurations constructed from the same interface sequence,
   self-powered flag, remote-wakeup flag and max-power value hold the same
   nine header bytes, bConfigurationValue (byte 5) and iConfiguration
   (byte 6) included, and return the same get_number().  Stated on the
   state that follows a construction: any other construction from the same
   four arguments, whatever the storage it is built in held before, gives
   the bytes this one has. *)
C15_ConstructionDeterministic ==
    last.op = "usb_configuration" =>
        \A j \in JunkPairs :
            LET other == usb_configuration(last.arg[1], ifaces, last.arg[2],
                                           last.arg[3], last.arg[4], j[1], j[2])
            IN  /\ other.m_packed_data = config.m_packed_data
                /\ get_number(other) = get_number(config)

(* pack() has returned: both of its statements have run *)
PackReturned ==
    /\ descriptor.constructed
    /\ pc = "idle"
    /\ last.op = "pack"

(* C16: pack() runs the base header write before the payload step
   descriptor_pack, and when it returns the first two bytes of the caller's
   buffer are bLength and bDescriptionType: 18 and 1 for the device
   descriptor. *)
C16_HeaderBeforePayload ==
    descriptor.constructed =>
        /\ pc = "base_packed" =>
              /\ descriptor.steps = <<"Base::pack">>
              /\ descriptor.m_data[0] = descriptor.bLength
              /\ descriptor.m_data[1] = descriptor.bDescriptionType
        /\ PackReturned =>
              /\ descriptor.steps = <<"Base::pack", "descriptor_pack">>
              /\ descriptor.m_data[0] = descriptor.bLength
              /\ descriptor.m_data[1] = descriptor.bDescriptionType
              /\ descriptor.m_data[0] = 18
              /\ descriptor.m_data[1] = 1

C16_Witness ==
    /\ PackReturned
    /\ descriptor.steps = <<"Base::pack", "descriptor_pack">>
    /\ descriptor.m_data[0] = 18
    /\ descriptor.m_data[1] = 1
    /\ Cardinality(DOMAIN descriptor.m_data) = 20
    /\ descriptor.m_data[2] = 165

(* C17: when the caller's buffer has at least bLength bytes, the view
   pack() returns starts at the buffer's first byte and is bLength bytes
   long (18 for the device descriptor), whatever the size of the buffer. *)
C17_ReturnedViewIsFilledPortion ==
    (PackReturned /\ Cardinality(DOMAIN descriptor.m_data) >= descriptor.bLength) =>
        /\ descriptor.returned.from = 0
        /\ descriptor.returned.size = descriptor.bLength
        /\ descriptor.returned.size = 18

(* The private driver operation behind each public operation *)
DriverOperation ==
    [ x \in { "serial::configure", "serial::write", "serial::read", "serial::flush",
              "v5::serial::configure", "v5::serial::write",
              "v5::serial::receive_buffer", "v5::serial::receive_cursor",
              "spi::configure", "spi::transfer", "socket::write", "socket::read" } |->
        CASE x \in {"serial::configure", "v5::serial::configure", "spi::configure"}
                 -> "driver_configure"
          [] x \in {"serial::write", "v5::serial::write", "socket::write"}
                 -> "driver_write"
          [] x \in {"serial::read", "socket::read"} -> "driver_read"
          [] x = "serial::flush" -> "driver_flush"
          [] x = "v5::serial::receive_buffer" -> "driver_receive_buffer"
          [] x = "v5::serial::receive_cursor" -> "driver_cursor"
          [] x = "spi::transfer" -> "driver_transfer" ]

(* C18: every public operation of serial, spi and socket calls its private
   driver operation exactly once, with the caller's arguments as given, and
   ends as the driver's operation ended: the same value returned, or the
   same error when the driver throws.  Nothing of an earlier call is in the
   outcome: it is fixed by the arguments and the driver alone. *)
C18_PeripheralPassThrough ==
    last.op \in DOMAIN DriverOperation =>
        /\ driver.calls = <<[op |-> DriverOperation[last.op], arg |-> last.arg]>>
        /\ driver.returned = driver.outcome
        /\ driver.outcome.threw => (last.threw /\ last.error = driver.outcome.value)
        /\ ~driver.outcome.threw => ~last.threw

C18_Witness ==
    /\ last.op = "serial::read"
    /\ last.arg = <<2>>
    /\ driver.calls = <<[op |-> "driver_read", arg |-> <<2>>]>>
    /\ ~driver.outcome.threw
    /\ driver.returned = Returns([data |-> 1, available |-> 3, capacity |-> 2])

(* C19: in every state of an interface, header bytes 4..8 are the five
   fields of the setting registered under get_selected_setting_number(),
   so the payload is fixed by the active index and not by the calls made
   before: set_setting(i) twice gives what once gives, and set_setting(j)
   after set_setting(i) gives what set_setting(j) alone gives. *)
C19_PayloadFollowsActiveIndex ==
    \A k \in 1..Len(ifaces) :
        LET obj == ifaces[k]
            sel == get_selected_setting_number(obj)
        IN  /\ HasIndex(obj.m_settings, sel)
            /\ HeaderShows(obj, Registered(obj.m_settings, sel))
            /\ \A i, j \in 0..(MaxIdx + 1) :
                  LET once == set_setting(obj, i)
                      alone == set_setting(obj, j)
                  IN  /\ set_setting(once.self, i).self = once.self
                      /\ (~once.threw /\ ~alone.threw) =>
                            set_setting(once.self, j).self = alone.self

C19_Witness ==
    /\ Len(ifaces) = 1
    /\ last.op = "set_setting"
    /\ last.threw
    /\ get_selected_setting_number(ifaces[1]) = 1
    /\ Registered(ifaces[1].m_settings, 1) # Registered(ifaces[1].m_settings, 0)
    /\ HeaderShows(ifaces[1], Registered(ifaces[1].m_settings, 1))

(* C20: set_setting changes header bytes 4..8 and the active index of the
   interface it is called on and nothing else: bytes 0, 1 and 2 stay 9, 4
   and the interface number the constructor was given, byte 3 and the
   settings stay as they were, get_interface_number() returns what it
   returned, and no other object changes. *)
C20_SetSettingFrame ==
    [][ /\ (last'.op = "usb_interface" /\ ~last'.threw) =>
              LET obj == ifaces'[Len(ifaces')]
              IN  /\ obj.m_packed_data[0] = 9
                  /\ obj.m_packed_data[1] = 4
                  /\ obj.m_packed_data[2] = last'.arg[1]
                  /\ get_interface_number(obj) = last'.arg[1]
                  /\ obj.m_settings = last'.arg[2]
        /\ last'.op = "set_setting" =>
              /\ Len(ifaces') = Len(ifaces)
              /\ \A k \in 1..Len(ifaces) :
                    /\ ifaces'[k].m_packed_data[0] = 9
                    /\ ifaces'[k].m_packed_data[1] = 4
                    /\ \A b \in 0..3 :
                          ifaces'[k].m_packed_data[b] = ifaces[k].m_packed_data[b]
                    /\ get_interface_number(ifaces'[k]) = get_interface_number(ifaces[k])
                    /\ ifaces'[k].m_settings = ifaces[k].m_settings
                    /\ k # last'.arg[1] => ifaces'[k] = ifaces[k]
              /\ p_settings' = p_settings
              /\ config' = config ]_vars

C20_Witness ==
    /\ Len(ifaces) = 1
    /\ last.op = "set_setting"
    /\ ~last.threw
    /\ get_selected_setting_number(ifaces[1]) = 1
    /\ ifaces[1].m_packed_data[0] = 9
    /\ ifaces[1].m_packed_data[1] = 4
    /\ ifaces[1].m_packed_data[2] = 1
    /\ ifaces[1].m_packed_data[4] = 2

(* m[j] is the first entry of the settings sequence m with index i *)
FirstWithIndex(m, i, j) ==
    /\ j \in 1..Len(m)
    /\ m[j][1] = i
    /\ \A h \in 1..(j - 1) : m[h][1] # i

(* C21: get_interface_setting(i) fails with argument_out_of_domain exactly
   when no entry of the settings sequence has index i; otherwise it returns
   the setting of the first entry with index i, so a later entry with the
   same index is never the one returned. *)
C21_LookupReturnsFirstMatch ==
    /\ \A k \in 1..Len(ifaces), i \in 0..(MaxIdx + 1) :
          LET m == ifaces[k].m_settings
              r == get_interface_setting(ifaces[k], i)
          IN  /\ r.threw <=> ~(\E j \in 1..Len(m) : m[j][1] = i)
              /\ r.threw => r.error = argument_out_of_domain
              /\ ~r.threw => \E j \in 1..Len(m) :
                                FirstWithIndex(m, i, j) /\ r.value = m[j][2]
    /\ last.op = "get_interface_setting" =>
          LET m == ifaces[last.arg[1]].m_settings
              i == last.arg[2]
          IN  /\ last.threw <=> ~(\E j \in 1..Len(m) : m[j][1] = i)
              /\ last.threw => last.error = argument_out_of_domain
              /\ ~last.threw => \E j \in 1..Len(m) :
                                   FirstWithIndex(m, i, j) /\ last.value = m[j][2]

C21_Witness ==
    /\ last.op = "get_interface_setting"
    /\ ~last.threw
    /\ last.arg[2] = 0
    /\ LET m == ifaces[last.arg[1]].m_settings
       IN  /\ Len(m) = 2
           /\ m[1][1] = 0
           /\ m[2][1] = 0
           /\ m[1][2] # m[2][2]
           /\ last.value = m[1][2]

====
